---- MODULE Spec2Model ----
(***************************************************************************)
(* Cache synchronisation of nix-software-center (src/parse/cache.rs).      *)
(*                                                                         *)
(* The cache directory is a map from file names to files.  A string is a   *)
(* sequence of one-character strings, so that trimming, splitting and      *)
(* slicing are computed as the code computes them.  A catalog file is a    *)
(* sequence of chunks (the units the decompression loop writes).           *)
(***************************************************************************)
EXTENDS Integers, Sequences, FiniteSets, TLC

(***************************************************************************)
(* Bounds of the model.                                                    *)
(***************************************************************************)
\* Number of upstream generations each external source can go through.
NVer == 2
\* Number of checkcache calls made on one cache directory.
MaxCalls == 2
\* Longest suffix, in tokens, of a raw version of the derivation check.
MaxTok == 3
\* Longest marker content and query answer of the comparison check.
MaxMark == 2
\* Largest number of packages of a catalog document of the normaliser check.
MaxPkgs == 2

(***************************************************************************)
(* Strings.                                                                *)
(***************************************************************************)
IsWs(c) == c \in {" ", "\n", "\t"}

RECURSIVE TrimStart(_)
\* str::trim, left half: drops leading whitespace.
TrimStart(s) ==
    IF s = <<>> THEN <<>>
    ELSE IF IsWs(Head(s)) THEN TrimStart(Tail(s)) ELSE s

RECURSIVE TrimEnd(_)
\* str::trim, right half: drops trailing whitespace.
TrimEnd(s) ==
    IF s = <<>> THEN <<>>
    ELSE IF IsWs(s[Len(s)]) THEN TrimEnd(SubSeq(s, 1, Len(s) - 1)) ELSE s

\* str::trim
Trim(s) == TrimEnd(TrimStart(s))

\* .replace('"', "")
StripQuotes(s) == SelectSeq(s, LAMBDA c : c # "\"")

RECURSIVE Split(_, _)
\* str::split(sep).collect::<Vec<&str>>(): always at least one component.
Split(s, sep) ==
    IF \A i \in 1..Len(s) : s[i] # sep THEN <<s>>
    ELSE LET i == CHOOSE j \in 1..Len(s) :
                      s[j] = sep /\ \A k \in 1..(j - 1) : s[k] # sep
         IN  <<SubSeq(s, 1, i - 1)>> \o Split(SubSeq(s, i + 1, Len(s)), sep)

RECURSIVE Join(_, _)
\* [&str]::join(sep)
Join(parts, sep) ==
    IF parts = <<>> THEN <<>>
    ELSE IF Len(parts) = 1 THEN parts[1]
    ELSE parts[1] \o <<sep>> \o Join(Tail(parts), sep)

RECURSIVE Concat(_)
\* Concatenation of a sequence of strings.
Concat(ss) == IF ss = <<>> THEN <<>> ELSE Head(ss) \o Concat(Tail(ss))

Unstable == <<"u", "n", "s", "t", "a", "b", "l", "e">>
Pre      == <<"p", "r", "e">>
S2211    == <<"2", "2", ".", "1", "1">>

\* The value of an expression that may panic (slice out of range, unwrap).
Val(v)  == [ok |-> TRUE, val |-> v]
Panic   == [ok |-> FALSE, val |-> <<>>]

(***************************************************************************)
(* Release-identifier derivations, one per routine.                        *)
(***************************************************************************)
\* setuplegacypkgscache, setupupdatecache: lines 198-204 and 402-408.
\* split('.') followed by join(".") of ALL components, then the byte slice
\* [0..5], which panics on a string shorter than 5.
LegacyRelver(dlver) ==
    LET joined == Join(Split(dlver, "."), ".")
    IN  IF Len(joined) < 5 THEN Panic
        ELSE IF Len(dlver) >= 8 /\ SubSeq(dlver, 6, 8) = Pre
             THEN Val(Unstable)
             ELSE Val(Trim(SubSeq(joined, 1, 5)))

\* setupnewestver, lines 465-469: as above on the untrimmed version, and the
\* slice is not trimmed.
NewestRelver(version) ==
    LET joined == Join(Split(version, "."), ".")
    IN  IF Len(joined) < 5 THEN Panic
        ELSE IF Len(version) >= 8 /\ SubSeq(version, 6, 8) = Pre
             THEN Val(Unstable)
             ELSE Val(SubSeq(joined, 1, 5))

\* setupflakepkgscache, lines 264-267: the first two components (the slice
\* [0..2] panics when there is only one), joined, not truncated.
FlakeRelver(dlver) ==
    LET parts == Split(dlver, ".")
    IN  IF Len(parts) < 2 THEN Panic
        ELSE LET two == Join(SubSeq(parts, 1, 2), ".")
             IN  IF two = S2211 THEN Val(Unstable) ELSE Val(two)

\* getlatestpkgs, lines 138-141: the first two components joined, then the
\* byte slice [0..5], which panics when the join is shorter than 5.
LatestRelver(dlver) ==
    LET parts == Split(dlver, ".")
    IN  IF Len(parts) < 2 THEN Panic
        ELSE LET two == Join(SubSeq(parts, 1, 2), ".")
             IN  IF Len(two) < 5 THEN Panic
                 ELSE IF SubSeq(two, 1, 5) = S2211 THEN Val(Unstable)
                      ELSE Val(SubSeq(two, 1, 5))

(***************************************************************************)
(* Staleness decisions, one per comparison in the code.  `old` is the      *)
(* marker file's content as read, the other argument the queried value.    *)
(***************************************************************************)
\* setuplegacypkgscache 224-226, setupupdatecache 428-430: the marker is
\* trimmed; dlver was trimmed when it was derived (195, 399).
TrimmedIsFresh(old, dlver) == Trim(old) = dlver

\* setupflakepkgscache 304: the contents as read against the revision.
FlakeIsStale(oldver, rev) == oldver # rev

\* getlatestpkgs 160, setupflakepkgscache 325: contents against response text.
RevIsStale(oldrev, newrev) == oldrev # newrev

\* setupprofilepkgscache 375
ProfileIsStale(oldver, profilerev) == oldver # profilerev

\* The comparison of setupnewestver as it would be if it never found the
\* marker fresh.
NewestNeverFresh(old, latest) == FALSE

\* setupnewestver 484-485
NewestIsFresh(old, latest) == old = latest

(***************************************************************************)
(* Files of the cache directory.                                           *)
(***************************************************************************)
ChnVer   == "chnver.txt"
SysVer   == "sysver.txt"
NewVer   == "newver.txt"
FlakeVer == "flakever.txt"
ProfVer  == "profilever.txt"
PkgsJson == "packages.json"
SysJson  == "syspackages.json"
ProfJson == "profilepackages.json"

Markers  == {ChnVer, SysVer, NewVer, FlakeVer, ProfVer}
Catalogs == {PkgsJson, SysJson, ProfJson}
Files    == Markers \cup Catalogs

NoFile   == [ex |-> FALSE, data |-> <<>>]
File(d)  == [ex |-> TRUE, data |-> d]
EmptyDir == [f \in Files |-> NoFile]

(***************************************************************************)
(* Catalog documents.  A raw catalog is the chunk sequence                 *)
(*   Open, Pkg(name, version, other fields)..., Close                       *)
(* and a normalised one is a single chunk holding the flat mapping.        *)
(***************************************************************************)
Open  == [t |-> "open"]
Close == [t |-> "close"]
Pkg(n, v, e) == [t |-> "pkg", name |-> n, hasver |-> TRUE, version |-> v, extra |-> e]
Flat(m)      == [t |-> "flat", map |-> m]
Search(r)    == [t |-> "search", rev |-> r]

NoMap == [n \in {} |-> <<>>]

RECURSIVE Collect(_)
\* Deserialisation of the "packages" object into HashMap<String, NewPackage>:
\* every field but version is dropped, a repeated key keeps the last entry.
Collect(es) ==
    IF es = <<>> THEN NoMap
    ELSE LET m == Collect(SubSeq(es, 1, Len(es) - 1))
             e == es[Len(es)]
         IN  [n \in (DOMAIN m) \cup {e.name} |->
                  IF n = e.name THEN [version |-> e.version] ELSE m[n]]

\* ParseRaw as it would be with #[serde(deny_unknown_fields)] on NewPackage:
\* an entry with a field besides version is an error.
ParseRawDenyUnknown(data) ==
    IF /\ Len(data) >= 2
       /\ data[1] = Open
       /\ data[Len(data)] = Close
       /\ \A i \in 2..(Len(data) - 1) :
              data[i].t = "pkg" /\ data[i].hasver /\ data[i].extra = ""
    THEN [ok |-> TRUE, packages |-> Collect(SubSeq(data, 2, Len(data) - 1))]
    ELSE [ok |-> FALSE, packages |-> NoMap]

\* simd_json::serde::from_reader::<NewPackageBase>, line 448: an error unless
\* the file is a complete document whose entries all carry a version string.
ParseRaw(data) ==
    IF /\ Len(data) >= 2
       /\ data[1] = Open
       /\ data[Len(data)] = Close
       /\ \A i \in 2..(Len(data) - 1) : data[i].t = "pkg" /\ data[i].hasver
    THEN [ok |-> TRUE, packages |-> Collect(SubSeq(data, 2, Len(data) - 1))]
    ELSE [ok |-> FALSE, packages |-> NoMap]

\* Lines 449-452: outbase.insert(pkg, ver.version) for every package.
Flatten(packages) == [n \in DOMAIN packages |-> packages[n].version]

(***************************************************************************)
(* A routine threads a record through its file operations:                 *)
(*   fs  the cache directory, ops  the operations performed so far,        *)
(*   got the source of the content last fetched completely into each       *)
(*       catalog file, dl  path and outcome of the dlfile call, if any,    *)
(*   q   the values the version queries answered, in order.                *)
(***************************************************************************)
NoDl == [path |-> "", kind |-> "none"]
Ctx(fs0, got0) == [fs |-> fs0, ops |-> <<>>, got |-> got0, dl |-> NoDl, q |-> <<>>]

\* A version query answered v.
Asked(st, v) == [st EXCEPT !.q = Append(@, v)]

Exists(st, f) == st.fs[f].ex
ReadFile(st, f) == st.fs[f].data

\* A marker write that never reaches the disk.
WriteMarkerDropped(st, f, d) == st

\* fs::File::create followed by write_all of the whole content.
WriteMarker(st, f, d) ==
    [st EXCEPT !.fs[f] = File(d), !.ops = Append(@, <<"write", f>>)]

\* fs::remove_file
RemoveFile(st, f) ==
    [st EXCEPT !.fs[f] = NoFile, !.ops = Append(@, <<"remove", f>>)]

(***************************************************************************)
(* dlfile, lines 503-546.  `net` is what the network and the disk do:      *)
(*   req    "ok" | "fail"      reqwest::blocking::get returns Ok or Err    *)
(*   status "ok" | "bad"       response.status().is_success()              *)
(*   fault, at                 the fault of the decompression loop, if     *)
(*                             any, and the number of chunks before it     *)
(* The loop sees the results of the successive reader.read calls, each     *)
(*          [k |-> "data", chunk, w]  Ok(size > 0), w the write's result   *)
(*          [k |-> "intr"]            Err(Interrupted)                     *)
(*          [k |-> "err"]             any other Err                        *)
(*          [k |-> "eof"]             Ok(0)                                *)
(***************************************************************************)
RData(c, w) == [k |-> "data", chunk |-> c, w |-> w]
RIntr == [k |-> "intr"]
RErr  == [k |-> "err"]
REof  == [k |-> "eof"]

\* One iteration as it would be if an interrupted read were an error like
\* any other.
LoopIterAbortOnIntr(data, r) ==
    IF r.k \in {"intr", "err"} THEN [next |-> "done", kind |-> "readerr", data |-> data]
    ELSE IF r.k = "eof" THEN [next |-> "done", kind |-> "ok", data |-> data]
    ELSE IF r.w = "err" THEN [next |-> "done", kind |-> "writeerr", data |-> data]
    ELSE [next |-> "read", kind |-> "none", data |-> Append(data, r.chunk)]

\* One iteration of the loop, lines 521-534, on the destination's content so
\* far and the result r of reader.read: continue (next = "read"), or leave
\* the loop by break (kind "ok") or by return Err.
LoopIter(data, r) ==
    IF r.k = "intr" THEN [next |-> "read", kind |-> "none", data |-> data]
    ELSE IF r.k = "err" THEN [next |-> "done", kind |-> "readerr", data |-> data]
    ELSE IF r.k = "eof" THEN [next |-> "done", kind |-> "ok", data |-> data]
    ELSE IF r.w = "err" THEN [next |-> "done", kind |-> "writeerr", data |-> data]
    ELSE [next |-> "read", kind |-> "none", data |-> Append(data, r.chunk)]

RECURSIVE DlLoop(_, _)
\* The loop of lines 520-535 on the destination's content so far.
DlLoop(reads, data) ==
    IF reads = <<>> THEN [kind |-> "ok", data |-> data]
    ELSE LET s == LoopIter(data, Head(reads))
         IN  IF s.next = "done" THEN [kind |-> s.kind, data |-> s.data]
             ELSE DlLoop(Tail(reads), s.data)

(***************************************************************************)
(* What the world outside the cache directory answers.                     *)
(* up.sys   generation of the local system: what the version evaluator     *)
(*          and the system version reporter answer                         *)
(* up.net   generation of the remote heads: git-revision, commit API,      *)
(*          channel alias                                                  *)
(***************************************************************************)
Digit(i) == <<"0", "1", "2", "3", "4", "5", "6", "7", "8", "9">>[i + 1]

\* Version of generation i: a release for odd i, a pre-release for even i.
VerStr(i) ==
    IF i % 2 = 1 THEN <<"2", "3", ".", "0", Digit(i)>>
    ELSE <<"2", "3", ".", "1", Digit(i)>> \o Pre

\* stdout of nix-instantiate --eval [--json]: the quoted string and a newline.
EvalStdout(i) == <<"\"">> \o VerStr(i) \o <<"\"", "\n">>

\* Fields of nixos-version --json.
NixosVersion(i)   == VerStr(i) \o <<".", "1">>
NixpkgsRevision(i) == <<"r", Digit(i)>>

\* Text of the git-revision resource, sha of the commit API.
GitRev(i)  == <<"g", Digit(i)>>
ProfRev(i) == <<"c", Digit(i)>>

\* Last path segment of the resolved channel-alias URL.
AliasTarget(relver, i) == <<"n", "i", "x", "o", "s", "-">> \o relver \o <<".", Digit(i)>>
AliasSelf(relver)      == <<"n", "i", "x", "o", "s", "-">> \o relver
NixosPrefix == <<"n", "i", "x", "o", "s", "-">>

\* str::strip_prefix("nixos-").unwrap_or(s), line 472.
StripNixos(s) ==
    IF Len(s) >= Len(NixosPrefix) /\ SubSeq(s, 1, Len(NixosPrefix)) = NixosPrefix
    THEN SubSeq(s, Len(NixosPrefix) + 1, Len(s))
    ELSE s

\* The decompressed catalog a url serves: id names the content.
BodyOf(id) == <<Open, Pkg("foo", id, "d"), Close>>

\* The read results of one decompression of body, with a fault at position at.
Script(body, fault, at) ==
    LET ok(i, j) == [n \in 1..(j - i + 1) |-> RData(body[i + n - 1], "ok")]
        n == Len(body)
    IN  IF fault = "intr"
        THEN ok(1, at) \o <<RIntr>> \o ok(at + 1, n) \o <<REof>>
        ELSE IF fault = "readerr" THEN ok(1, at) \o <<RErr>>
        ELSE IF fault = "writeerr" /\ at < n
        THEN ok(1, at) \o <<RData(body[at + 1], "err")>>
        ELSE ok(1, n) \o <<REof>>

\* dlfile as it would be with File::create moved above the status check.
DlFileCreateFirst(st, id, path, net) ==
    LET st1 == [st EXCEPT !.ops = Append(@, <<"fetch", path>>)]
    IN  IF net.req = "fail"
        THEN [st1 EXCEPT !.dl = [path |-> path, kind |-> "reqfail"]]
        ELSE IF net.status # "ok"
        THEN [st1 EXCEPT !.fs[path] = File(<<>>),
                         !.dl = [path |-> path, kind |-> "badstatus"]]
        ELSE LET r == DlLoop(Script(BodyOf(id), net.fault, net.at), <<>>)
             IN  [st1 EXCEPT !.fs[path] = File(r.data),
                             !.dl = [path |-> path, kind |-> r.kind],
                             !.got[path] = IF r.kind = "ok" THEN id ELSE @]

\* dlfile(url, path): id names the content the url serves.
DlFile(st, id, path, net) ==
    LET st1 == [st EXCEPT !.ops = Append(@, <<"fetch", path>>)]
    IN  IF net.req = "fail"
        THEN [st1 EXCEPT !.dl = [path |-> path, kind |-> "reqfail"]]
        ELSE IF net.status # "ok"
        THEN [st1 EXCEPT !.dl = [path |-> path, kind |-> "badstatus"]]
        ELSE LET r == DlLoop(Script(BodyOf(id), net.fault, net.at), <<>>)
             IN  \* File::create(path) truncates, then the loop appends
                 [st1 EXCEPT !.fs[path] = File(r.data),
                             !.dl = [path |-> path, kind |-> r.kind],
                             !.got[path] = IF r.kind = "ok" THEN id ELSE @]

\* Whether the dlfile call of st, if any, returned Ok.
DlOk(st) == st.dl.kind \in {"none", "ok"}

\* Lines 446-454 of setupupdatecache: the catalog normaliser on outfile.
Normalize(st, outfile) ==
    LET p == ParseRaw(ReadFile(st, outfile))
    IN  IF ~p.ok THEN [st |-> st, res |-> "err"]
        ELSE [st  |-> [st EXCEPT !.fs[outfile] = File(<<Flat(Flatten(p.packages))>>),
                                 !.ops = Append(@, <<"normalize", outfile>>)],
              res |-> "ok"]

\* writesyspkgs, lines 275-286: the search tool's stdout, verbatim.
WriteSysPkgs(st, rev, search) ==
    IF search = "spawnfail" THEN [st |-> st, res |-> "err"]
    ELSE [st  |-> [st EXCEPT !.fs[SysJson] = File(<<Search(rev)>>),
                             !.ops = Append(@, <<"search", SysJson>>),
                             !.got[SysJson] = rev],
          res |-> "ok"]

Ret(st, res) == [st |-> st, res |-> res]

(***************************************************************************)
(* The routines.  Each takes the context st, the upstream record u and     *)
(* what the tools and the network do during the call (in), and returns     *)
(* the context and "ok" (Ok), "err" (Err returned) or "panic".             *)
(*   in.tool   "ok" | "spawnfail" | "empty"   the spawned tool              *)
(*   in.http   "ok" | "fail" | "bad"          the version endpoint          *)
(*   in.search "ok" | "spawnfail"             the catalog search            *)
(*   in.net    what dlfile meets                                            *)
(***************************************************************************)

\* The part shared by setuplegacypkgscache (219-242) and setupupdatecache
\* (423-445): marker, catalog, and the fetch.
MarkerThenFetch(st, marker, catalog, dlver, net) ==
    LET st1 == IF ~Exists(st, marker) THEN WriteMarker(st, marker, dlver) ELSE st
    IN  IF /\ Exists(st1, marker)
           /\ TrimmedIsFresh(ReadFile(st1, marker), dlver)
           /\ Exists(st1, catalog)
        THEN st1
        ELSE LET st2 == IF Exists(st1, marker) THEN RemoveFile(st1, marker) ELSE st1
                 st3 == WriteMarker(st2, marker, dlver)
             IN  DlFile(st3, dlver, catalog, net)

\* setuplegacypkgscache, lines 180-243.
SetupLegacy(st, u, in) ==
    IF in.tool = "spawnfail" THEN Ret(st, "err")
    ELSE LET stdout == IF in.tool = "empty" THEN <<>> ELSE EvalStdout(u.sys)
             dlver  == Trim(StripQuotes(stdout))
             relver == LegacyRelver(dlver)
         IN  IF ~relver.ok THEN Ret(st, "panic")
             ELSE LET st4 == MarkerThenFetch(Asked(st, dlver), ChnVer, PkgsJson,
                                             dlver, in.net)
                  IN  Ret(st4, IF DlOk(st4) THEN "ok" ELSE "err")

\* setupupdatecache, lines 390-456.
SetupUpdate(st, u, in) ==
    IF in.tool = "spawnfail" THEN Ret(st, "err")
    ELSE LET stdout == IF in.tool = "empty" THEN <<>> ELSE EvalStdout(u.sys)
             dlver  == Trim(StripQuotes(stdout))
             relver == LegacyRelver(dlver)
         IN  IF ~relver.ok THEN Ret(st, "panic")
             ELSE LET st4 == MarkerThenFetch(Asked(st, dlver), SysVer, SysJson,
                                             dlver, in.net)
                  IN  IF st4.dl.kind = "none" THEN Ret(st4, "ok")
                      ELSE IF st4.dl.kind # "ok" THEN Ret(st4, "err")
                      ELSE Normalize(st4, SysJson)

\* setupnewestver, lines 458-501.
SetupNewest(st, u, in) ==
    IF in.tool = "spawnfail" THEN Ret(st, "err")
    ELSE LET stdout  == IF in.tool = "empty" THEN <<>> ELSE EvalStdout(u.sys)
             version == StripQuotes(stdout)
             relver  == NewestRelver(version)
         IN  IF ~relver.ok THEN Ret(st, "panic")
             ELSE IF in.http = "fail" THEN Ret(st, "err")
             ELSE LET \* the status is not looked at: a failed request resolves
                      \* to the url that was asked for
                      segment == IF in.http = "ok"
                                 THEN AliasTarget(relver.val, u.net)
                                 ELSE AliasSelf(relver.val)
                      latest  == StripNixos(segment)
                      st0 == Asked(st, latest)
                      st1 == IF ~Exists(st0, NewVer)
                             THEN WriteMarker(st0, NewVer, latest) ELSE st0
                  IN  IF Exists(st1, NewVer) /\ NewestIsFresh(ReadFile(st1, NewVer), latest)
                      THEN Ret(st1, "ok")
                      ELSE LET st2 == IF Exists(st1, NewVer)
                                      THEN RemoveFile(st1, NewVer) ELSE st1
                           IN  Ret(WriteMarker(st2, NewVer, latest), "ok")

\* Lines 151-177 of getlatestpkgs and 316-339 of setupflakepkgscache: the
\* probe of the git-revision resource and the fetch of packages.json.
ProbeThenFetch(st, u, in) ==
    IF in.http = "fail" THEN Ret(st, "err")
    ELSE IF in.http = "bad" THEN Ret(st, "ok")
    ELSE LET newrev == GitRev(u.net)
             dl  == IF Exists(st, NewVer)
                    THEN RevIsStale(ReadFile(st, NewVer), newrev) ELSE TRUE
             st1 == WriteMarker(Asked(st, newrev), NewVer, newrev)
         IN  IF ~dl THEN Ret(st1, "ok")
             ELSE LET st2 == DlFile(st1, newrev, PkgsJson, in.net)
                  IN  Ret(st2, IF DlOk(st2) THEN "ok" ELSE "err")

\* getlatestpkgs, lines 132-178.
GetLatestPkgs(st, u, in) ==
    IF in.tool \in {"spawnfail", "empty"} THEN Ret(st, "err")
    ELSE LET relver == LatestRelver(NixosVersion(u.sys))
         IN  IF ~relver.ok THEN Ret(st, "panic")
             ELSE ProbeThenFetch(st, u, in)

\* Lines 296-314 of setupflakepkgscache: flakever.txt and the catalog search.
FlakeSearch(st, rev, search) ==
    LET stale == IF ~Exists(st, FlakeVer) THEN TRUE
                 ELSE FlakeIsStale(ReadFile(st, FlakeVer), rev)
        r1 == IF stale
              THEN WriteSysPkgs(WriteMarker(st, FlakeVer, rev), rev, search)
              ELSE Ret(st, "ok")
    IN  IF r1.res # "ok" THEN r1
        ELSE IF ~Exists(r1.st, SysJson) THEN WriteSysPkgs(r1.st, rev, search)
        ELSE r1

\* setupflakepkgscache, lines 245-340, with config.flake = None.
SetupFlake(st, u, in) ==
    LET st1 == IF Exists(st, ChnVer) THEN RemoveFile(st, ChnVer) ELSE st
    IN  IF in.tool \in {"spawnfail", "empty"} THEN Ret(st1, "err")
        ELSE LET rev    == NixpkgsRevision(u.sys)
                 relver == FlakeRelver(NixosVersion(u.sys))
             IN  IF ~relver.ok THEN Ret(st1, "panic")
                 ELSE LET r2 == FlakeSearch(Asked(st1, rev), rev, in.search)
                      IN  IF r2.res # "ok" THEN r2
                          ELSE ProbeThenFetch(r2.st, u, in)

\* setupprofilepkgscache, lines 342-386.
SetupProfile(st, u, in) ==
    LET st1 == IF Exists(st, ChnVer) THEN RemoveFile(st, ChnVer) ELSE st
    IN  IF in.http = "fail" THEN Ret(st1, "err")
        ELSE IF in.http = "bad" THEN Ret(st1, "ok")
        ELSE LET profilerev == ProfRev(u.net)
                 st1a  == Asked(st1, profilerev)
                 stale == IF ~Exists(st1, ProfVer) THEN TRUE
                          ELSE ProfileIsStale(ReadFile(st1, ProfVer), profilerev)
             IN  IF ~stale THEN Ret(st1a, "ok")
                 ELSE LET st2 == DlFile(WriteMarker(st1a, ProfVer, profilerev),
                                        profilerev, ProfJson, in.net)
                      IN  Ret(st2, IF DlOk(st2) THEN "ok" ELSE "err")

(***************************************************************************)
(* State.                                                                  *)
(***************************************************************************)
VARIABLES
    fs,      \* the cache directory: file name -> file
    got,     \* catalog -> id of the content last fetched completely into it
    up,      \* the upstream generations
    pc,      \* position of the checkcache call in progress, "idle" if none
    sys,     \* syspkgs of the call
    user,    \* userpkgs of the call
    trace,   \* routines invoked by the call so far, in order
    result,  \* outcome of the last call that ended
    last,    \* the routine invoked last: name, outcome, file operations,
             \* dlfile call, answers of its version queries
    calls,   \* number of checkcache calls made so far
    raw,     \* input of the pure-function checks
    out,     \* their result
    hist,    \* what the call in progress (or the last one) started from
    procs,   \* the two unsynchronised callers of the interleaving check
    flight,  \* whether those callers are serialised ("single") or not
    loop     \* the decompression loop of the loop check

vars == <<fs, got, up, pc, sys, user, trace, result, last, calls, raw, out,
          hist, procs, flight, loop>>

SysModes  == {"Legacy", "Flake", "None"}
UserModes == {"Env", "Profile", "None"}

NotDone  == [done |-> FALSE]
NoResult == [res |-> "none", from |-> ""]
NoLast   == [rt |-> "", res |-> "none", ops |-> <<>>, dl |-> NoDl, q |-> <<>>,
             tool |-> "", http |-> ""]

\* The first generation of every upstream source.
Up0 == [sys |-> 1, net |-> 1]

\* hist: ok   whether the call before this one returned Ok
\*       pup  the upstream generations that call saw, up  those this one sees
\*       fs   the cache directory this call started from
\*       fetched  whether this call has called dlfile or the catalog search
NoHist == [ok |-> FALSE, pup |-> Up0, up |-> Up0, fs |-> EmptyDir, fetched |-> FALSE]

\* The variables of the other checks, which the dispatcher never touches.
NoProcs == <<>>
NoLoop  == [pc |-> "none"]
others  == <<raw, out, procs, flight, loop>>

\* Whether a routine called dlfile or ran the catalog search.
Fetches(ops) == \E i \in 1..Len(ops) : ops[i][1] \in {"fetch", "search"}

\* Where a fault of the decompression loop can strike: before the first
\* chunk or after it.
FaultAt == {0, 1}

NetOk == [req |-> "ok", status |-> "ok", fault |-> "none", at |-> 0]

\* What dlfile can meet.
Nets ==
    {[req |-> "fail", status |-> "ok", fault |-> "none", at |-> 0],
     [req |-> "ok", status |-> "bad", fault |-> "none", at |-> 0],
     NetOk}
    \cup {[req |-> "ok", status |-> "ok", fault |-> f, at |-> a] :
              f \in {"intr", "readerr", "writeerr"}, a \in FaultAt}

ToolOutcomes == {"ok", "spawnfail", "empty"}
HttpOutcomes == {"ok", "fail", "bad"}

\* What each routine can meet: only what it uses varies.
In(tools, https, searches, nets) ==
    [tool : tools, http : https, search : searches, net : nets]

(***************************************************************************)
(* checkcache, lines 29-59.  The positions are the call sites.             *)
(***************************************************************************)
\* Lines 55-58.
AfterEnv(u) == IF u = "Profile" THEN "l56" ELSE "l58"

\* Lines 50-53 without the test syspkgs != Legacy.
AfterMatchAnySys(s, u) == IF u = "Env" THEN "l51" ELSE AfterEnv(u)

\* Lines 50-53.
AfterMatch(s, u) == IF u = "Env" /\ s # "Legacy" THEN "l51" ELSE AfterEnv(u)

\* Lines 34-48: the first call site of the match.
Entry(s, u) ==
    IF s = "Legacy" THEN "l36"
    ELSE IF s = "Flake" THEN "l41"
    ELSE IF u = "Profile" THEN "l45"
    ELSE AfterMatch(s, u)

\* The call site that follows a call site whose routine returned Ok.
NextPc(p, s, u) ==
    IF p = "l36" THEN "l37"
    ELSE IF p = "l37" THEN "l38"
    ELSE IF p \in {"l38", "l41", "l45"} THEN AfterMatch(s, u)
    ELSE IF p = "l51" THEN "l52"
    ELSE IF p = "l52" THEN AfterEnv(u)
    ELSE "l58"

\* A call site that drops the Result instead of applying ? to it.
QuestionDropped(res) == IF res = "err" THEN "ok" ELSE res

\* The ? operator: Err returns from checkcache, a panic unwinds.
Question(res) == res

\* .unwrap(), line 45: Err panics.
Unwrap(res) == IF res = "err" THEN "panic" ELSE res

\* The call at the current site returned r (after ? or unwrap gave res).
Called(rt, in, r, res) ==
    /\ fs' = r.st.fs
    /\ got' = r.st.got
    /\ trace' = Append(trace, rt)
    /\ last' = [rt |-> rt, res |-> r.res, ops |-> r.st.ops, dl |-> r.st.dl,
                q |-> r.st.q, tool |-> in.tool, http |-> in.http]
    /\ pc' = IF res = "ok" THEN NextPc(pc, sys, user) ELSE "idle"
    /\ result' = IF res = "ok" THEN NoResult ELSE [res |-> res, from |-> rt]
    /\ hist' = [hist EXCEPT !.fetched = @ \/ Fetches(r.st.ops)]
    /\ UNCHANGED <<up, sys, user, calls, others>>

\* The caller invokes checkcache(syspkgs, userpkgs, config) with the
\* configuration it detected at start-up, the same on every call.
Checkcache ==
    /\ pc = "idle"
    /\ calls < MaxCalls
    /\ calls' = calls + 1
    /\ pc' = Entry(sys, user)
    /\ trace' = <<>>
    /\ result' = NoResult
    /\ last' = NoLast
    /\ hist' = [ok |-> result.res = "ok", pup |-> hist.up, up |-> up, fs |-> fs,
                fetched |-> FALSE]
    /\ UNCHANGED <<fs, got, up, sys, user, others>>

RunLegacy ==
    /\ pc = "l36"
    /\ \E in \in In(ToolOutcomes, {"ok"}, {"ok"}, Nets) :
          LET r == SetupLegacy(Ctx(fs, got), up, in)
          IN  Called("legacy", in, r, Question(r.res))

RunUpdate ==
    /\ pc \in {"l37", "l51"}
    /\ \E in \in In(ToolOutcomes, {"ok"}, {"ok"}, Nets) :
          LET r == SetupUpdate(Ctx(fs, got), up, in)
          IN  Called("update", in, r, Question(r.res))

RunNewest ==
    /\ pc \in {"l38", "l52"}
    /\ \E in \in In(ToolOutcomes, HttpOutcomes, {"ok"}, {NetOk}) :
          LET r == SetupNewest(Ctx(fs, got), up, in)
          IN  Called("newest", in, r, Question(r.res))

RunFlake ==
    /\ pc = "l41"
    /\ \E in \in In(ToolOutcomes, HttpOutcomes, {"ok", "spawnfail"}, Nets) :
          LET r == SetupFlake(Ctx(fs, got), up, in)
          IN  Called("flake", in, r, Question(r.res))

RunLatest ==
    /\ pc = "l45"
    /\ \E in \in In(ToolOutcomes, HttpOutcomes, {"ok"}, Nets) :
          LET r == GetLatestPkgs(Ctx(fs, got), up, in)
          IN  Called("latest", in, r, Unwrap(r.res))

RunProfile ==
    /\ pc = "l56"
    /\ \E in \in In({"ok"}, HttpOutcomes, {"ok"}, Nets) :
          LET r == SetupProfile(Ctx(fs, got), up, in)
          IN  Called("profile", in, r, Question(r.res))

\* Line 58: Ok(()).
Return ==
    /\ pc = "l58"
    /\ pc' = "idle"
    /\ result' = [res |-> "ok", from |-> ""]
    /\ UNCHANGED <<fs, got, up, sys, user, trace, last, calls, hist, others>>

\* One upstream source moves to its next generation.
UpstreamChange ==
    /\ pc = "idle"
    /\ \E k \in DOMAIN up :
          /\ up[k] < NVer
          /\ up' = [up EXCEPT ![k] = @ + 1]
    /\ UNCHANGED <<fs, got, pc, sys, user, trace, result, last, calls, hist, others>>

Init ==
    /\ fs = EmptyDir
    /\ got = [c \in Catalogs |-> <<>>]
    /\ up = Up0
    /\ pc = "idle"
    /\ sys \in SysModes
    /\ user \in UserModes
    /\ trace = <<>>
    /\ result = NoResult
    /\ last = NoLast
    /\ calls = 0
    /\ raw = <<>>
    /\ out = NotDone
    /\ hist = NoHist
    /\ procs = NoProcs
    /\ flight = "single"
    /\ loop = NoLoop

Next ==
    \/ Checkcache
    \/ RunLegacy
    \/ RunUpdate
    \/ RunNewest
    \/ RunFlake
    \/ RunLatest
    \/ RunProfile
    \/ Return
    \/ UpstreamChange

Spec == Init /\ [][Next]_vars

(***************************************************************************)
(* Properties of the dispatcher and the routines, checked under Spec.      *)
(***************************************************************************)
\* The routines the dispatch table of the specification lists for (s, u).
Expected(s, u) ==
    (IF s = "Legacy" THEN <<"legacy", "update", "newest">>
     ELSE IF s = "Flake" THEN <<"flake">>
     ELSE IF u = "Profile" THEN <<"latest">>
     ELSE <<>>)
    \o (IF u = "Env" /\ s # "Legacy" THEN <<"update", "newest">> ELSE <<>>)
    \o (IF u = "Profile" THEN <<"profile">> ELSE <<>>)

\* A step in which checkcache invoked a routine.
RoutineStep == trace' # trace /\ trace' # <<>>

\* C1: in every mode combination the routines invoked so far are the first
\* routines the table lists, in its order, each once; a call that returns
\* Ok has invoked exactly the listed routines.
C1_DispatchOrder ==
    /\ Len(trace) <= Len(Expected(sys, user))
    /\ trace = SubSeq(Expected(sys, user), 1, Len(trace))
    /\ result.res = "ok" => trace = Expected(sys, user)

C1_Witness ==
    /\ result.res = "ok"
    /\ sys = "Flake"
    /\ user = "Env"
    /\ trace = <<"flake", "update", "newest">>

\* C2: when a routine other than the probe of line 45 returns Err, the call
\* has ended, its result is that routine's error, and the failing routine is
\* the last one invoked.
C2_ErrorPropagates ==
    (last.res = "err" /\ last.rt # "latest") =>
        /\ pc = "idle"
        /\ result = [res |-> "err", from |-> last.rt]
        /\ trace # <<>>
        /\ trace[Len(trace)] = last.rt
        /\ Len(trace) <= Len(Expected(sys, user))

C2_Witness ==
    /\ sys = "Legacy"
    /\ last.rt = "newest"
    /\ last.res = "err"
    /\ result.res = "err"
    /\ Len(trace) = Len(Expected(sys, user))

\* C3: when getlatestpkgs returns Err in the (None, Profile) case, checkcache
\* neither returns nor aborts: it goes on to the Profile refresh at line 56.
C3_ProbeFailureSwallowed ==
    (last.rt = "latest" /\ last.res = "err") =>
        /\ result.res = "none"
        /\ pc = "l56"

\* The markers and catalogs each routine of C4 compares.
OwnMarkers(rt) ==
    IF rt = "legacy" THEN {ChnVer}
    ELSE IF rt = "update" THEN {SysVer}
    ELSE IF rt = "newest" THEN {NewVer}
    ELSE IF rt = "flake" THEN {FlakeVer, NewVer}
    ELSE IF rt = "profile" THEN {ProfVer}
    ELSE {}

\* Before the step, the routine's markers hold exactly what its queries go
\* on to answer (q), and its catalogs exist.
FreshBefore(rt, q) ==
    IF rt = "legacy"
    THEN Len(q) = 1 /\ fs[ChnVer] = File(q[1]) /\ fs[PkgsJson].ex
    ELSE IF rt = "update"
    THEN Len(q) = 1 /\ fs[SysVer] = File(q[1]) /\ fs[SysJson].ex
    ELSE IF rt = "newest"
    THEN Len(q) = 1 /\ fs[NewVer] = File(q[1])
    ELSE IF rt = "flake"
    THEN /\ Len(q) = 2
         /\ fs[FlakeVer] = File(q[1])
         /\ fs[NewVer] = File(q[2])
         /\ fs[SysJson].ex
         /\ fs[PkgsJson].ex
    ELSE IF rt = "profile"
    THEN Len(q) = 1 /\ fs[ProfVer] = File(q[1]) /\ fs[ProfJson].ex
    ELSE FALSE

\* No fetch, no search, and no operation on a marker in ms.
Quiet(ops, ms) ==
    \A i \in 1..Len(ops) :
        ops[i][1] \notin {"fetch", "search"} /\ ops[i][2] \notin ms

\* C4: a refresh routine invoked while its markers equal the freshly queried
\* versions and its catalogs exist fetches nothing and creates, removes or
\* rewrites none of its markers.
C4_RefreshIdempotent ==
    [][(RoutineStep /\ FreshBefore(last'.rt, last'.q))
          => Quiet(last'.ops, OwnMarkers(last'.rt))]_vars

\* C5: when dlfile meets a non-success status the routine that called it
\* gets an error and the destination is exactly as it was before the call.
C5_BadStatusLeavesFile ==
    [][(RoutineStep /\ last'.dl.kind = "badstatus")
          => /\ last'.res = "err"
             /\ fs'[last'.dl.path] = fs[last'.dl.path]]_vars

C5_Witness ==
    /\ last.rt = "profile"
    /\ last.dl = [path |-> ProfJson, kind |-> "badstatus"]
    /\ fs[ProfJson].ex
    /\ result.res = "err"

\* C6: whichever way the fetch of a routine fails, the destination catalog
\* holds after the call what it held before.
C6_FailedFetchKeepsCatalog ==
    [][(RoutineStep /\ last'.dl.kind \in {"reqfail", "badstatus", "readerr", "writeerr"})
          => fs'[last'.dl.path] = fs[last'.dl.path]]_vars

\* C7: while no call is in progress, each marker of the configured modes
\* that exists holds the version of the content last fetched completely
\* into the catalog it guards.
C7_MarkerMatchesFetched ==
    pc = "idle" =>
        /\ (sys = "Legacy" /\ fs[ChnVer].ex)
              => Trim(fs[ChnVer].data) = got[PkgsJson]
        /\ ((sys = "Legacy" \/ user = "Env") /\ sys # "Flake" /\ fs[SysVer].ex)
              => Trim(fs[SysVer].data) = got[SysJson]
        /\ (user = "Profile" /\ fs[ProfVer].ex)
              => Trim(fs[ProfVer].data) = got[ProfJson]
        /\ (sys = "Flake" /\ user # "Env" /\ fs[FlakeVer].ex)
              => Trim(fs[FlakeVer].data) = got[SysJson]

(***************************************************************************)
(* The pure functions, each applied to inputs drawn from a bounded set.    *)
(* The dispatcher is at rest in these specifications.                      *)
(***************************************************************************)
DispatcherAtRest ==
    /\ got = [c \in Catalogs |-> <<>>]
    /\ up = Up0
    /\ hist = NoHist
    /\ pc = "idle"
    /\ sys = "None"
    /\ user = "None"
    /\ trace = <<>>
    /\ result = NoResult
    /\ last = NoLast
    /\ calls = 0

AtRest ==
    /\ DispatcherAtRest
    /\ procs = NoProcs
    /\ flight = "single"
    /\ loop = NoLoop
    /\ out = NotDone

\* All strings of at most n pieces, each piece out of the set pieces.
StringsOf(pieces, n) ==
    {Concat(ps) : ps \in UNION {[1..k -> pieces] : k \in 0..n}}

(***************************************************************************)
(* SpecRelver: the release-identifier derivations on raw version strings.  *)
(***************************************************************************)
\* Raw versions major.minor<suffix>: "23.05", "22.11", "23.05pre1.1",
\* "23.11.1", "9.05", ...
Majors == {<<"9">>, <<"2", "2">>, <<"2", "3">>}
Minors == {<<"0", "5">>, <<"1", "1">>}
SuffixTokens == {<<".">>, <<"1">>, Pre}
RawVersions ==
    {a \o <<".">> \o b \o c :
        a \in Majors, b \in Minors, c \in StringsOf(SuffixTokens, MaxTok)}

InitRelver ==
    /\ AtRest
    /\ fs = EmptyDir
    /\ raw \in RawVersions

\* Every routine derives its release identifier from the raw version.
Derive ==
    /\ ~out.done
    /\ out' = [done   |-> TRUE,
               legacy |-> LegacyRelver(raw),
               update |-> LegacyRelver(raw),
               newest |-> NewestRelver(raw),
               flake  |-> FlakeRelver(raw),
               latest |-> LatestRelver(raw)]
    /\ UNCHANGED <<fs, got, up, pc, sys, user, trace, result, last, calls, raw,
                   hist, procs, flight, loop>>

SpecRelver == InitRelver /\ [][Derive]_vars

\* The derivation as the specification words it.
Take(s, n) == SubSeq(s, 1, IF Len(s) < n THEN Len(s) ELSE n)
FirstTwoTruncated(v) == Take(Join(SubSeq(Split(v, "."), 1, 2), "."), 5)
PreRule(v) ==
    IF Len(v) >= 8 /\ SubSeq(v, 6, 8) = Pre THEN Unstable ELSE FirstTwoTruncated(v)
Rule2211(v) ==
    IF FirstTwoTruncated(v) = S2211 THEN Unstable ELSE FirstTwoTruncated(v)

\* C9: for a raw version of at least two dotted components every derivation
\* yields a value: "unstable" under the pre rule (Legacy, EnvUpdate,
\* NewestVersionProbe) or the 22.11 rule (Flake, NewestPkgsProbe), and
\* otherwise the first two components joined and cut to 5 characters.
C9_ReleaseIdentifier ==
    (out.done /\ Len(Split(raw, ".")) >= 2) =>
        /\ out.legacy = Val(PreRule(raw))
        /\ out.update = Val(PreRule(raw))
        /\ out.newest = Val(PreRule(raw))
        /\ out.flake = Val(Rule2211(raw))
        /\ out.latest = Val(Rule2211(raw))

(***************************************************************************)
(* SpecStale: the staleness comparisons on marker content and answer.      *)
(***************************************************************************)
\* A version of at most MaxMark characters inside optional whitespace.
Pads == {<<>>, <<" ">>, <<"\n">>}
Padded ==
    {l \o c \o r :
        l \in Pads, r \in Pads,
        c \in StringsOf({<<"a">>, <<"b">>}, MaxMark) \ {<<>>}}

InitStale ==
    /\ AtRest
    /\ fs = EmptyDir
    /\ raw \in [old : Padded, new : Padded]

\* Every routine decides whether marker content raw.old is fresh for the
\* query answer raw.new.  Legacy and EnvUpdate trim the answer when they
\* derive dlver (lines 192-196, 397-400).
Compare ==
    /\ ~out.done
    /\ out' = [done    |-> TRUE,
               legacy  |-> TrimmedIsFresh(raw.old, Trim(StripQuotes(raw.new))),
               update  |-> TrimmedIsFresh(raw.old, Trim(StripQuotes(raw.new))),
               flake   |-> ~FlakeIsStale(raw.old, raw.new),
               latest  |-> ~RevIsStale(raw.old, raw.new),
               profile |-> ~ProfileIsStale(raw.old, raw.new),
               newest  |-> NewestIsFresh(raw.old, raw.new)]
    /\ UNCHANGED <<fs, got, up, pc, sys, user, trace, result, last, calls, raw,
                   hist, procs, flight, loop>>

SpecStale == InitStale /\ [][Compare]_vars

\* C8: every routine treats the marker as fresh exactly when marker content
\* and answer are equal after trimming both.
C8_TrimmedComparison ==
    out.done =>
        \A r \in {"legacy", "update", "flake", "latest", "profile", "newest"} :
            out[r] = (Trim(raw.old) = Trim(raw.new))

(***************************************************************************)
(* SpecNorm: the catalog normaliser on raw catalog documents, from the     *)
(* state setupupdatecache is in when dlfile has returned (line 445).       *)
(***************************************************************************)
PkgNames    == {"foo", "bar", "baz"}
PkgVersions == {<<"1", ".", "0">>, <<"2", ".", "0">>}
PkgExtras   == {"", "d"}
PkgEntries  == {Pkg(n, v, e) : n \in PkgNames, v \in PkgVersions, e \in PkgExtras}

\* Documents whose "packages" object maps at most MaxPkgs names to objects
\* with a version.
RawDocs ==
    {<<Open>> \o es \o <<Close>> :
        es \in {x \in UNION {[1..k -> PkgEntries] : k \in 0..MaxPkgs} :
                   \A i, j \in DOMAIN x : i # j => x[i].name # x[j].name}}

InitNorm ==
    /\ AtRest
    /\ raw \in RawDocs
    /\ fs = [EmptyDir EXCEPT ![SysJson] = File(raw)]

NormalizeCatalog ==
    /\ ~out.done
    /\ LET r == Normalize(Ctx(fs, got), SysJson)
       IN  /\ fs' = r.st.fs
           /\ out' = [done |-> TRUE, res |-> r.res]
    /\ UNCHANGED <<got, up, pc, sys, user, trace, result, last, calls, raw,
                   hist, procs, flight, loop>>

SpecNorm == InitNorm /\ [][NormalizeCatalog]_vars

\* C10: the normaliser succeeds and overwrites the file with the flat
\* mapping whose keys are the package names of the raw document and whose
\* values are their version strings.
C10_Normalized ==
    out.done =>
        LET es == SubSeq(raw, 2, Len(raw) - 1)
            d  == fs[SysJson].data
        IN  /\ out.res = "ok"
            /\ fs[SysJson].ex
            /\ Len(d) = 1
            /\ d[1].t = "flat"
            /\ DOMAIN d[1].map = {es[i].name : i \in DOMAIN es}
            /\ \A i \in DOMAIN es : d[1].map[es[i].name] = es[i].version

\* {"packages":{"foo":{"version":"1.0"}}} has become {"foo":"1.0"}.
C10_Witness ==
    /\ out.done
    /\ raw = <<Open, Pkg("foo", <<"1", ".", "0">>, ""), Close>>
    /\ fs[SysJson] = File(<<Flat([n \in {"foo"} |-> <<"1", ".", "0">>])>>)

(***************************************************************************)
(* Further properties of the routines and the dispatcher, under Spec.      *)
(***************************************************************************)
\* The marker and the catalog of the Legacy and the EnvUpdate refresh.
MarkerOf(rt)  == IF rt = "legacy" THEN ChnVer ELSE SysVer
CatalogOf(rt) == IF rt = "legacy" THEN PkgsJson ELSE SysJson

HasOp(ops, op) == \E i \in 1..Len(ops) : ops[i] = op

\* C11: a Legacy or EnvUpdate refresh whose version query answered and that
\* started with its marker absent writes the marker with the queried version
\* and fetches its catalog, whether or not the catalog file existed.
C11_AbsentMarkerIsStale ==
    [][(/\ RoutineStep
        /\ last'.rt \in {"legacy", "update"}
        /\ Len(last'.q) = 1
        /\ ~fs[MarkerOf(last'.rt)].ex)
          => /\ HasOp(last'.ops, <<"write", MarkerOf(last'.rt)>>)
             /\ fs'[MarkerOf(last'.rt)] = File(last'.q[1])
             /\ HasOp(last'.ops, <<"fetch", CatalogOf(last'.rt)>>)]_vars

\* The normalised catalog of version v.
NormalizedFor(v) == <<Flat(Flatten(ParseRaw(BodyOf(v)).packages))>>

\* C12: whenever the EnvUpdate refresh has returned Ok, syspackages.json
\* holds the normalised catalog of the version sysver.txt records.
C12_UpdateLeavesNormalized ==
    (last.rt = "update" /\ last.res = "ok") =>
        /\ fs[SysVer].ex
        /\ fs[SysJson] = File(NormalizedFor(Trim(fs[SysVer].data)))

\* C13: setupnewestver fetches nothing and leaves every file but newver.txt
\* as it was; it touches newver.txt only when the file is absent or differs
\* from the resolved channel name, and when it returns Ok the file holds
\* that name.
C13_NewestFrame ==
    [][(RoutineStep /\ last'.rt = "newest")
          => /\ ~Fetches(last'.ops)
             /\ got' = got
             /\ \A f \in Files \ {NewVer} : fs'[f] = fs[f]
             /\ (last'.ops # <<>> \/ fs'[NewVer] # fs[NewVer])
                   => /\ Len(last'.q) = 1
                      /\ ~fs[NewVer].ex \/ fs[NewVer].data # last'.q[1]
             /\ last'.res = "ok" => fs'[NewVer] = File(last'.q[1])]_vars

\* The probe replaced a differing newver.txt while the catalogs were there.
C13_Witness ==
    /\ last.rt = "newest"
    /\ last.res = "ok"
    /\ last.ops = <<<<"remove", NewVer>>, <<"write", NewVer>>>>
    /\ fs[PkgsJson].ex
    /\ fs[SysJson].ex

\* C14: when the tool a routine spawns cannot be run or prints nothing, the
\* routine returns Err, checkcache returns that Err to its caller, and the
\* routine has written no file and fetched nothing.
C14_ToolFailureIsError ==
    [][(RoutineStep /\ last'.tool \in {"spawnfail", "empty"})
          => /\ last'.res = "err"
             /\ result'.res = "err"
             /\ \A i \in 1..Len(last'.ops) :
                    last'.ops[i][1] \notin {"write", "fetch", "search"}]_vars

\* C15: when the version endpoint of the Flake refresh, the NewestPkgsProbe,
\* the Profile refresh or the NewestVersionProbe answers with a non-success
\* status, the routine returns Err and writes neither newver.txt nor
\* profilever.txt.
C15_BadStatusIsError ==
    [][(/\ RoutineStep
        /\ last'.rt \in {"flake", "latest", "profile", "newest"}
        /\ last'.tool = "ok"
        /\ last'.http = "bad")
          => /\ last'.res = "err"
             /\ ~HasOp(last'.ops, <<"write", NewVer>>)
             /\ ~HasOp(last'.ops, <<"write", ProfVer>>)]_vars

\* C18: a call that returns Ok right after a call that returned Ok, with the
\* same modes and the upstream generations unchanged in between, has called
\* neither dlfile nor the catalog search and leaves the cache directory as
\* it found it.
C18_CallIdempotent ==
    (/\ pc = "idle"
     /\ result.res = "ok"
     /\ hist.ok
     /\ hist.pup = hist.up)
        => /\ ~hist.fetched
           /\ fs = hist.fs

\* C19: in Legacy mode, a call that returns Ok after a call that returned Ok
\* on another channel version leaves in packages.json the catalog of the
\* version it saw.
C19_LegacyChangeDetected ==
    (/\ pc = "idle"
     /\ result.res = "ok"
     /\ sys = "Legacy"
     /\ hist.ok
     /\ hist.pup.sys # hist.up.sys)
        => /\ fs[PkgsJson] = File(BodyOf(VerStr(hist.up.sys)))
           /\ got[PkgsJson] = VerStr(hist.up.sys)

\* Before the step the routine's marker holds the version v its query goes
\* on to answer while the catalog it guards does not hold the content of v.
\* The modes are those in which no other routine writes the two files, so
\* that this state can only come from a fetch that failed after the marker
\* was written.
Masked(rt, q) ==
    IF rt = "legacy"
    THEN user # "Profile" /\ Len(q) = 1
         /\ fs[ChnVer] = File(q[1]) /\ got[PkgsJson] # q[1]
    ELSE IF rt = "update"
    THEN sys # "Flake" /\ Len(q) = 1
         /\ fs[SysVer] = File(q[1]) /\ got[SysJson] # q[1]
    ELSE IF rt = "profile"
    THEN Len(q) = 1 /\ fs[ProfVer] = File(q[1]) /\ got[ProfJson] # q[1]
    ELSE IF rt = "flake"
    THEN user # "Env" /\ Len(q) = 2
         /\ fs[NewVer] = File(q[2]) /\ got[PkgsJson] # q[2]
    ELSE FALSE

\* The catalog each routine fetches with dlfile.
Fetched(rt) ==
    IF rt = "update" THEN SysJson
    ELSE IF rt = "profile" THEN ProfJson
    ELSE PkgsJson

\* C20: a routine invoked while its marker holds the current version but the
\* catalog does not hold that version's content calls dlfile for the catalog
\* again.
C20_RefetchAfterFailure ==
    [][(RoutineStep /\ Masked(last'.rt, last'.q))
          => HasOp(last'.ops, <<"fetch", Fetched(last'.rt)>>)]_vars

(***************************************************************************)
(* SpecLoop: dlfile from File::create (line 514) to the end of the         *)
(* decompression loop (line 535), one action per reader.read result.       *)
(* loop.pc      "create", "read" (line 521) or "done"                       *)
(* loop.src     the chunks the decompressor has still to deliver            *)
(* loop.chunks  the chunks it has delivered, in order                       *)
(* loop.r       the result of the last reader.read                          *)
(* loop.tick    parity of the number of interrupted reads                   *)
(* loop.res     how the loop ended                                          *)
(***************************************************************************)
\* Longest decompressed body, in chunks.
MaxChunks == 3

Bodies == UNION {[1..k -> {"a", "b"}] : k \in 0..MaxChunks}

InitLoop ==
    /\ DispatcherAtRest
    /\ procs = NoProcs
    /\ flight = "single"
    /\ raw = <<>>
    /\ out = NotDone
    /\ \E old \in {NoFile, File(<<"o">>)} : fs = [EmptyDir EXCEPT ![PkgsJson] = old]
    /\ \E b \in Bodies :
          loop = [pc |-> "create", src |-> b, chunks |-> <<>>, r |-> "none",
                  tick |-> 0, res |-> "none"]

\* File::create(path), line 514: the destination is created or truncated.
Create ==
    /\ loop.pc = "create"
    /\ fs' = [fs EXCEPT ![PkgsJson] = File(<<>>)]
    /\ loop' = [loop EXCEPT !.pc = "read"]
    /\ UNCHANGED <<got, up, pc, sys, user, trace, result, last, calls, raw, out,
                   hist, procs, flight>>

\* One iteration of the loop on the read result r named rk.
Iterate(r, rk) ==
    LET s == LoopIter(fs[PkgsJson].data, r)
    IN  /\ fs' = [fs EXCEPT ![PkgsJson].data = s.data]
        /\ loop' = [loop EXCEPT
                       !.pc = s.next,
                       !.res = s.kind,
                       !.r = rk,
                       !.tick = IF r.k = "intr" THEN 1 - @ ELSE @,
                       !.src = IF r.k = "data" THEN Tail(@) ELSE @,
                       !.chunks = IF r.k = "data" THEN Append(@, r.chunk) ELSE @]
        /\ UNCHANGED <<got, up, pc, sys, user, trace, result, last, calls, raw,
                       out, hist, procs, flight>>

\* reader.read returns Err(Interrupted).
ReadInterrupted == loop.pc = "read" /\ Iterate(RIntr, "intr")

\* reader.read returns any other Err.
ReadError == loop.pc = "read" /\ Iterate(RErr, "err")

\* reader.read returns Ok(size > 0) and write_all returns Ok.
ReadChunk ==
    /\ loop.pc = "read"
    /\ loop.src # <<>>
    /\ Iterate(RData(Head(loop.src), "ok"), "data")

\* reader.read returns Ok(size > 0) and write_all returns Err.
WriteError ==
    /\ loop.pc = "read"
    /\ loop.src # <<>>
    /\ Iterate(RData(Head(loop.src), "err"), "werr")

\* reader.read returns Ok(0): the stream is exhausted.
ReadEof ==
    /\ loop.pc = "read"
    /\ loop.src = <<>>
    /\ Iterate(REof, "eof")

NextLoop ==
    \/ Create
    \/ ReadInterrupted
    \/ ReadError
    \/ ReadChunk
    \/ WriteError
    \/ ReadEof

\* dlfile is a blocking call: the loop keeps iterating until it leaves.
SpecLoop == InitLoop /\ [][NextLoop]_vars /\ WF_vars(NextLoop)

\* C17: an interrupted read leaves the destination as it is and the loop
\* running; another read error or a write error ends the loop with that
\* error; a read of size 0 ends it with success, and then the destination
\* holds exactly the chunks read, in order; if from some point on no read is
\* interrupted, the loop ends.
C17_DecompressionLoop ==
    /\ [][loop'.r = "intr" => (fs' = fs /\ loop'.pc = "read" /\ loop'.res = "none")]_vars
    /\ [](loop.r = "err" => (loop.pc = "done" /\ loop.res = "readerr"))
    /\ [](loop.r = "werr" => (loop.pc = "done" /\ loop.res = "writeerr"))
    /\ [](loop.r = "eof" => (loop.pc = "done" /\ loop.res = "ok"))
    /\ [](loop.res = "ok" =>
              (loop.src = <<>> /\ fs[PkgsJson] = File(loop.chunks)))
    /\ (<>[][loop'.r # "intr"]_vars) => <>(loop.pc = "done")

\* The loop ended with success after an odd number of interrupted reads,
\* over an older file, with the body a, b, a.
C17_Witness ==
    /\ loop.pc = "done"
    /\ loop.res = "ok"
    /\ loop.tick = 1
    /\ loop.chunks = <<"a", "b", "a">>
    /\ fs[PkgsJson] = File(<<"a", "b", "a">>)

(***************************************************************************)
(* SpecRace: two callers run the same refresh routine, setuplegacypkgscache *)
(* or setupupdatecache, on one cache directory, one action per file        *)
(* operation of lines 219-242 (423-455).  Tools and network succeed; what  *)
(* can fail is a file operation that meets what the other caller did.      *)
(* procs[i].pc     "start", the line the caller is about to run, "done"    *)
(* procs[i].dlver  the version its query answered                          *)
(* procs[i].res    "none", "ok", "ioerr" or "parseerr"                     *)
(* flight          "single": a caller starts only while no other is in     *)
(*                 flight; "concurrent": any time                          *)
(***************************************************************************)
Callers == {1, 2}

InitRace ==
    /\ DispatcherAtRest
    /\ fs = EmptyDir
    /\ raw = <<>>
    /\ out = NotDone
    /\ loop = NoLoop
    /\ flight \in {"single", "concurrent"}
    /\ \E rt \in {"legacy", "update"} :
          procs = [i \in Callers |->
                      [rt |-> rt, pc |-> "start", dlver |-> <<>>, res |-> "none"]]

\* Caller i goes on to line npc with result nres, the directory being st.
Step(i, npc, nres, st) ==
    /\ procs' = [procs EXCEPT ![i].pc = npc, ![i].res = nres]
    /\ fs' = st.fs
    /\ got' = st.got
    /\ UNCHANGED <<up, pc, sys, user, trace, result, last, calls, raw, out,
                   hist, flight, loop>>

\* The routine's file operation failed: ? returns the error.
Fails(i, kind) == Step(i, "done", kind, Ctx(fs, got))

\* Lines 182-196 (392-400): the caller enters the routine and queries the
\* version.
RaceStart(i) ==
    /\ procs[i].pc = "start"
    /\ flight = "single" => \A j \in Callers : procs[j].pc \in {"start", "done"}
    /\ procs' = [procs EXCEPT
                    ![i].pc = "l219",
                    ![i].dlver = Trim(StripQuotes(EvalStdout(up.sys)))]
    /\ UNCHANGED <<fs, got, up, pc, sys, user, trace, result, last, calls, raw,
                   out, hist, flight, loop>>

\* Lines 219-222 (423-426): the marker is created if it is absent.
RaceCreateIfAbsent(i) ==
    /\ procs[i].pc = "l219"
    /\ LET st == Ctx(fs, got)
           m  == MarkerOf(procs[i].rt)
       IN  Step(i, "l224", "none",
                IF Exists(st, m) THEN st ELSE WriteMarker(st, m, procs[i].dlver))

\* Line 224 (428): the first operand of the freshness test.
RaceExists(i) ==
    /\ procs[i].pc = "l224"
    /\ Step(i, IF fs[MarkerOf(procs[i].rt)].ex THEN "l225" ELSE "l231", "none",
            Ctx(fs, got))

\* Lines 225-226 (429-430): the marker is read and compared.
RaceRead(i) ==
    /\ procs[i].pc = "l225"
    /\ LET m == MarkerOf(procs[i].rt)
       IN  IF ~fs[m].ex THEN Fails(i, "ioerr")
           ELSE Step(i, IF TrimmedIsFresh(fs[m].data, procs[i].dlver)
                        THEN "l227" ELSE "l231",
                     "none", Ctx(fs, got))

\* Lines 227-229 (431-433): the catalog exists, so the routine returns Ok.
RaceCatalogExists(i) ==
    /\ procs[i].pc = "l227"
    /\ IF fs[CatalogOf(procs[i].rt)].ex
       THEN Step(i, "done", "ok", Ctx(fs, got))
       ELSE Step(i, "l231", "none", Ctx(fs, got))

\* Line 231 (435): the marker is read again for the log line.
RaceReadOld(i) ==
    /\ procs[i].pc = "l231"
    /\ IF ~fs[MarkerOf(procs[i].rt)].ex THEN Fails(i, "ioerr")
       ELSE Step(i, "l235", "none", Ctx(fs, got))

\* Line 235 (439).
RaceExistsAgain(i) ==
    /\ procs[i].pc = "l235"
    /\ Step(i, IF fs[MarkerOf(procs[i].rt)].ex THEN "l236" ELSE "l238", "none",
            Ctx(fs, got))

\* Line 236 (440): remove_file fails on a file that is not there.
RaceRemove(i) ==
    /\ procs[i].pc = "l236"
    /\ LET m == MarkerOf(procs[i].rt)
       IN  IF ~fs[m].ex THEN Fails(i, "ioerr")
           ELSE Step(i, "l238", "none", RemoveFile(Ctx(fs, got), m))

\* Lines 238-239 (442-443): the marker is written.
RaceRewrite(i) ==
    /\ procs[i].pc = "l238"
    /\ Step(i, "l241", "none",
            WriteMarker(Ctx(fs, got), MarkerOf(procs[i].rt), procs[i].dlver))

\* Line 241 (445): dlfile; setuplegacypkgscache then returns Ok.
RaceFetch(i) ==
    /\ procs[i].pc = "l241"
    /\ LET st == DlFile(Ctx(fs, got), procs[i].dlver, CatalogOf(procs[i].rt), NetOk)
       IN  IF procs[i].rt = "legacy" THEN Step(i, "done", "ok", st)
           ELSE Step(i, "l446", "none", st)

\* Lines 446-455 of setupupdatecache: the normaliser.
RaceNormalize(i) ==
    /\ procs[i].pc = "l446"
    /\ LET r == Normalize(Ctx(fs, got), SysJson)
       IN  Step(i, "done", IF r.res = "ok" THEN "ok" ELSE "parseerr", r.st)

\* The version the evaluator reports moves on.
RaceUpstream ==
    /\ up.sys < NVer
    /\ up' = [up EXCEPT !.sys = @ + 1]
    /\ UNCHANGED <<fs, got, pc, sys, user, trace, result, last, calls, raw, out,
                   hist, procs, flight, loop>>

NextRace ==
    \/ \E i \in Callers : RaceStart(i)
    \/ \E i \in Callers : RaceCreateIfAbsent(i)
    \/ \E i \in Callers : RaceExists(i)
    \/ \E i \in Callers : RaceRead(i)
    \/ \E i \in Callers : RaceCatalogExists(i)
    \/ \E i \in Callers : RaceReadOld(i)
    \/ \E i \in Callers : RaceExistsAgain(i)
    \/ \E i \in Callers : RaceRemove(i)
    \/ \E i \in Callers : RaceRewrite(i)
    \/ \E i \in Callers : RaceFetch(i)
    \/ \E i \in Callers : RaceNormalize(i)
    \/ RaceUpstream

SpecRace == InitRace /\ [][NextRace]_vars

\* The marker of routine rt records the version whose content, complete, is
\* in the catalog it guards.
Consistent(rt) ==
    /\ fs[MarkerOf(rt)].ex
    /\ fs[CatalogOf(rt)].ex
    /\ Trim(fs[MarkerOf(rt)].data) = got[CatalogOf(rt)]
    /\ fs[CatalogOf(rt)].data =
          IF rt = "legacy" THEN BodyOf(got[CatalogOf(rt)])
          ELSE NormalizedFor(got[CatalogOf(rt)])

RaceIoError ==
    /\ flight = "concurrent"
    /\ \E i, j \in Callers :
          /\ procs[i].pc = "done" /\ procs[i].res = "ioerr"
          /\ procs[j].pc = "done" /\ procs[j].res = "ok"

(***************************************************************************)
(* The catalogs of a call that returned Ok, under Spec.                    *)
(***************************************************************************)
\* The catalog files the specification attributes to each routine.
CatalogsOf(rt) ==
    IF rt \in {"legacy", "latest"} THEN {PkgsJson}
    ELSE IF rt = "flake" THEN {PkgsJson, SysJson}
    ELSE IF rt = "update" THEN {SysJson}
    ELSE IF rt = "profile" THEN {ProfJson}
    ELSE {}

\* C21: when checkcache has returned Ok, every catalog file of every routine
\* the call invoked exists.
C21_CatalogsExistAfterOk ==
    (pc = "idle" /\ result.res = "ok") =>
        \A i \in 1..Len(trace) : \A c \in CatalogsOf(trace[i]) : fs[c].ex

====
